---- MODULE Spec2Model ----
(***************************************************************************)
(* The Sankey flow-graph pipeline of fava:                                 *)
(*   sankeyplot (frontend/src/charts/sankeyplot.ts) decodes the payload,   *)
(*   the d3-sankey layout resolves link endpoints to node objects, and     *)
(*   compute_total, compute_percent, compute_budget_actual, compute_name   *)
(*   (src/fava/templates/_charts.html) annotate the graph, and the links   *)
(*   are drawn one by one with the stroke colorLinks gives them.           *)
(*                                                                         *)
(* Representation.                                                         *)
(*   A string is the sequence of its lexemes: a word ("Income", "Job",     *)
(*   "collapsed"), one of the separator characters ":", "_", " ", or, for  *)
(*   numerals, one character per lexeme ("4","0",".","5","-").  split and  *)
(*   includes work on that sequence.  Rendered labels are TLC strings.     *)
(*   Arithmetic is that of the code, IEEE 754 binary64 with rounding to    *)
(*   nearest, ties to even.  An edge value, a total or an actual is held   *)
(*   as an integer count n of thousandths (1.00 is 1000) and stands for    *)
(*   the double nearest to n / 1000: that is the double Number gives for   *)
(*   the numeral and the double Math.round(..) / 100 gives.  A percent is  *)
(*   a double, held as sign, 53-bit mantissa and exponent, or an infinity  *)
(*   or NaN.  Array indices are 1-based (the code's are 0-based).          *)
(*   The chart component can be given a new payload after it has drawn     *)
(*   one; the component's own variables live across payloads.              *)
(***************************************************************************)
EXTENDS Integers, Sequences, FiniteSets, TLC

VARIABLES
    json,           \* the raw payload handed to sankeyplot
    pc,             \* position in the pipeline
    result,         \* what sankeyplot returned (or that it threw)
    g,              \* $data after the layout: nodes carry an index, links point at nodes
    in_degree,      \* compute_total: in_degree
    nodes_total,    \* compute_total: ans, returned as nodes_total
    node_max,       \* the module-level running maximum
    k,              \* number of edges the running loop has processed
    nodes_percent,  \* compute_percent: ans, returned as nodes_percent
    divided,        \* whether the last compute_percent iteration executed the division
    nodes_actual,   \* compute_budget_actual: actual
    nodes_name,     \* compute_name: ans
    scale_domain,   \* the domain of scatterplotScale: the ids it was asked, in order
    link_colour,    \* the stroke of the links rendered so far, as palette positions
    passes          \* number of payloads the chart component has been given

vars == <<json, pc, result, g, in_degree, nodes_total, node_max, k,
          nodes_percent, divided, nodes_actual, nodes_name,
          scale_domain, link_colour, passes>>

(***************************************************************************)
(* Bounds of the model.                                                    *)
(***************************************************************************)
\* records in a payload of the decoder domain
MaxRecords == 2
\* link tuples in a payload of the decoder domain, over all its records
MaxDecodeLinks == 2
\* link tuples in a payload of the flow domain
MaxFlowLinks == 3
\* payloads one chart component is given, the first one included
MaxPasses == 2

(***************************************************************************)
(* Strings.                                                                *)
(***************************************************************************)
\* String.prototype.split(sep) for a one-character separator
RECURSIVE Split(_, _)
Split(s, sep) ==
    IF \A i \in 1..Len(s) : s[i] # sep
    THEN <<s>>
    ELSE LET i == CHOOSE i \in 1..Len(s) :
                      s[i] = sep /\ \A j \in 1..(i - 1) : s[j] # sep
         IN  <<SubSeq(s, 1, i - 1)>> \o Split(SubSeq(s, i + 1, Len(s)), sep)

\* String.prototype.includes(marker), marker a word
Includes(s, marker) == \E i \in 1..Len(s) : s[i] = marker

\* the characters of a string, as text
RECURSIVE Text(_)
Text(s) == IF s = <<>> THEN "" ELSE s[1] \o Text(Tail(s))

RECURSIVE Pow10(_)
Pow10(n) == IF n = 0 THEN 1 ELSE 10 * Pow10(n - 1)

DigitVal(c) ==
    CASE c = "0" -> 0 [] c = "1" -> 1 [] c = "2" -> 2 [] c = "3" -> 3
      [] c = "4" -> 4 [] c = "5" -> 5 [] c = "6" -> 6 [] c = "7" -> 7
      [] c = "8" -> 8 [] c = "9" -> 9

RECURSIVE Digits(_)
Digits(s) ==
    IF s = <<>> THEN 0
    ELSE Digits(SubSeq(s, 1, Len(s) - 1)) * 10 + DigitVal(s[Len(s)])

\* Number(text) for a decimal numeral with at most three fraction digits,
\* in thousandths; Number("") is 0
Number(s) ==
    IF s = <<>> THEN 0
    ELSE LET neg   == s[1] = "-"
             body  == IF neg THEN Tail(s) ELSE s
             parts == Split(body, ".")
             frac  == IF Len(parts) > 1 THEN parts[2] ELSE <<>>
             mag   == Digits(parts[1]) * 1000
                        + Digits(frac) * Pow10(3 - Len(frac))
         IN  IF neg THEN 0 - mag ELSE mag

(***************************************************************************)
(* Binary64 arithmetic (IEEE 754 double, round to nearest, ties to even),  *)
(* the arithmetic of a JavaScript number.                                  *)
(***************************************************************************)
Pow2(n) == 2 ^ n

\* bits of a limb
LimbBits == 15
\* a natural number of any size: its limbs in base LimbBase, lowest first,
\* the highest limb not 0; <<>> is 0
LimbBase == Pow2(LimbBits)
\* bits of the significand of a double
MantissaBits == 53

RECURSIVE BigOf(_)
BigOf(n) == IF n = 0 THEN <<>> ELSE <<n % LimbBase>> \o BigOf(n \div LimbBase)

RECURSIVE IntOf(_)
IntOf(b) == IF b = <<>> THEN 0 ELSE b[1] + LimbBase * IntOf(Tail(b))

RECURSIVE Trim(_)
Trim(b) ==
    IF b # <<>> /\ b[Len(b)] = 0 THEN Trim(SubSeq(b, 1, Len(b) - 1)) ELSE b

Limb1(b) == IF b = <<>> THEN 0 ELSE b[1]
Rest(b) == IF b = <<>> THEN <<>> ELSE Tail(b)

RECURSIVE BigAddC(_, _, _)
BigAddC(a, b, c) ==
    IF a = <<>> /\ b = <<>> THEN (IF c = 0 THEN <<>> ELSE <<c>>)
    ELSE LET s == Limb1(a) + Limb1(b) + c
         IN  <<s % LimbBase>> \o BigAddC(Rest(a), Rest(b), s \div LimbBase)

BigAdd(a, b) == BigAddC(a, b, 0)

\* a - b - c for a >= b + c, limb by limb
RECURSIVE BigSubC(_, _, _)
BigSubC(a, b, c) ==
    IF a = <<>> THEN <<>>
    ELSE LET s == a[1] - Limb1(b) - c
         IN  IF s < 0
             THEN <<s + LimbBase>> \o BigSubC(Tail(a), Rest(b), 1)
             ELSE <<s>> \o BigSubC(Tail(a), Rest(b), 0)

BigSub(a, b) == Trim(BigSubC(a, b, 0))

\* -1, 0, 1 as a < b, a = b, a > b
RECURSIVE BigCmp(_, _)
BigCmp(a, b) ==
    IF Len(a) # Len(b) THEN (IF Len(a) < Len(b) THEN 0 - 1 ELSE 1)
    ELSE IF a = <<>> THEN 0
    ELSE IF a[Len(a)] # b[Len(b)]
    THEN (IF a[Len(a)] < b[Len(b)] THEN 0 - 1 ELSE 1)
    ELSE BigCmp(Trim(SubSeq(a, 1, Len(a) - 1)), Trim(SubSeq(b, 1, Len(b) - 1)))

\* a * c + carry for 0 <= c < LimbBase
RECURSIVE BigMulSmallC(_, _, _)
BigMulSmallC(a, c, carry) ==
    IF a = <<>> THEN (IF carry = 0 THEN <<>> ELSE <<carry>>)
    ELSE LET s == a[1] * c + carry
         IN  <<s % LimbBase>> \o BigMulSmallC(Tail(a), c, s \div LimbBase)

BigMulSmall(a, c) == Trim(BigMulSmallC(a, c, 0))

RECURSIVE BigMul(_, _)
BigMul(a, b) ==
    IF a = <<>> \/ b = <<>> THEN <<>>
    ELSE BigAdd(BigMulSmall(a, b[1]), Trim(<<0>> \o BigMul(a, Tail(b))))

\* the quotient and the remainder of a by c, 0 < c < LimbBase
RECURSIVE BigDivSmall(_, _)
BigDivSmall(a, c) ==
    IF a = <<>> THEN [q |-> <<>>, r |-> 0]
    ELSE LET hi == BigDivSmall(Tail(a), c)
             x  == hi.r * LimbBase + a[1]
         IN  [q |-> Trim(<<x \div c>> \o hi.q), r |-> x % c]

\* a * 2^n
BigShl(a, n) ==
    IF a = <<>> THEN <<>>
    ELSE [i \in 1..(n \div LimbBits) |-> 0] \o BigMulSmall(a, Pow2(n % LimbBits))

\* a \div 2^n
BigShr(a, n) ==
    IF n \div LimbBits >= Len(a) THEN <<>>
    ELSE BigDivSmall(SubSeq(a, 1 + n \div LimbBits, Len(a)),
                     Pow2(n % LimbBits)).q

RECURSIVE IntBits(_)
IntBits(n) == IF n = 0 THEN 0 ELSE 1 + IntBits(n \div 2)

\* the number of bits of a
BitLen(a) ==
    IF a = <<>> THEN 0 ELSE LimbBits * (Len(a) - 1) + IntBits(a[Len(a)])

\* a double: NaN, an infinity, or the finite (-1)^neg * m * 2^e with m of
\* exactly MantissaBits bits, or m = 0 (e = 0; -0 is held as 0)
DNaN == [kind |-> "nan", neg |-> FALSE, m |-> <<>>, e |-> 0]
DInf(neg) == [kind |-> "inf", neg |-> neg, m |-> <<>>, e |-> 0]
DZero == [kind |-> "fin", neg |-> FALSE, m |-> <<>>, e |-> 0]
IsFinite(x) == x.kind = "fin"
IsZero(x) == x.kind = "fin" /\ x.m = <<>>

\* whether one of the n lowest bits of a is 1
LowBits(a, n) ==
    \/ \E i \in 1..(n \div LimbBits) : i <= Len(a) /\ a[i] # 0
    \/ /\ n \div LimbBits < Len(a)
       /\ a[1 + n \div LimbBits] % Pow2(n % LimbBits) # 0

\* the double nearest to (-1)^neg * M * 2^E, ties to the even significand:
\* M is cut to MantissaBits bits, and goes up when the highest bit cut is 1
\* and either a lower bit is 1 or the significand is odd
RoundToDouble(neg, M, E) ==
    IF M = <<>> THEN DZero
    ELSE LET L == BitLen(M)
         IN  IF L <= MantissaBits
             THEN [kind |-> "fin", neg |-> neg,
                   m |-> BigShl(M, MantissaBits - L),
                   e |-> E - (MantissaBits - L)]
             ELSE LET n  == L - MantissaBits
                      q2 == BigShr(M, n - 1)
                      q  == BigDivSmall(q2, 2).q
                      up == /\ q2[1] % 2 = 1
                            /\ LowBits(M, n - 1) \/ q[1] % 2 = 1
                      q1 == IF up THEN BigAdd(q, <<1>>) ELSE q
                  IN  IF BitLen(q1) > MantissaBits
                      THEN [kind |-> "fin", neg |-> neg,
                            m |-> BigShr(q1, 1), e |-> E + n + 1]
                      ELSE [kind |-> "fin", neg |-> neg,
                            m |-> q1, e |-> E + n]

\* the double of an integer
DInt(n) == RoundToDouble(n < 0, BigOf(IF n < 0 THEN 0 - n ELSE n), 0)

DNeg(x) == IF IsZero(x) \/ x.kind = "nan" THEN x ELSE [x EXCEPT !.neg = ~x.neg]

\* x + y
DAdd(x, y) ==
    IF x.kind = "nan" \/ y.kind = "nan" THEN DNaN
    ELSE IF x.kind = "inf"
    THEN (IF y.kind = "inf" /\ y.neg # x.neg THEN DNaN ELSE x)
    ELSE IF y.kind = "inf" THEN y
    ELSE IF IsZero(x) THEN y
    ELSE IF IsZero(y) THEN x
    ELSE LET e0 == IF x.e < y.e THEN x.e ELSE y.e
             X  == BigShl(x.m, x.e - e0)
             Y  == BigShl(y.m, y.e - e0)
         IN  IF x.neg = y.neg THEN RoundToDouble(x.neg, BigAdd(X, Y), e0)
             ELSE IF BigCmp(X, Y) >= 0
             THEN RoundToDouble(x.neg, BigSub(X, Y), e0)
             ELSE RoundToDouble(y.neg, BigSub(Y, X), e0)

\* x - y
DSub(x, y) == DAdd(x, DNeg(y))

\* x * y
DMul(x, y) ==
    IF x.kind = "nan" \/ y.kind = "nan" THEN DNaN
    ELSE IF x.kind = "inf" \/ y.kind = "inf"
    THEN (IF IsZero(x) \/ IsZero(y) THEN DNaN ELSE DInf(x.neg # y.neg))
    ELSE RoundToDouble(x.neg # y.neg, BigMul(x.m, y.m), x.e + y.e)

\* x * c for a finite x and the integer c, 0 < c < LimbBase: what DMul gives
\* for x and DInt(c)
DMulInt(x, c) == RoundToDouble(x.neg, BigMulSmall(x.m, c), x.e)

\* the largest q with q * d <= r, from the estimate qe >= q, and r - q * d
RECURSIVE DivDigit(_, _, _)
DivDigit(r, d, qe) ==
    LET p == BigMulSmall(d, qe)
    IN  IF BigCmp(p, r) > 0 THEN DivDigit(r, d, qe - 1)
        ELSE [q |-> qe, r |-> BigSub(r, p)]

\* limbs of the significand of a double, shifted to fill them
DivLimbs == (MantissaBits + LimbBits - 1) \div LimbBits

\* i more limbs of the long division, in base LimbBase, by d of DivLimbs
\* limbs with the highest at least LimbBase / 2: q holds the limbs of the
\* quotient so far, lowest first, r the remainder so far.  The next limb is
\* estimated from the two highest limbs of r and the highest of d.
RECURSIVE BigDivFrom(_, _, _, _)
BigDivFrom(d, i, q, r) ==
    IF i = 0 THEN [q |-> q, r |-> r]
    ELSE LET r1 == IF r = <<>> THEN <<>> ELSE <<0>> \o r
             t  == IF Len(r1) > DivLimbs
                   THEN r1[DivLimbs + 1] * LimbBase + r1[DivLimbs]
                   ELSE IF Len(r1) = DivLimbs THEN r1[DivLimbs] ELSE 0
             qe == t \div d[DivLimbs]
             c  == DivDigit(r1, d, IF qe < LimbBase THEN qe ELSE LimbBase - 1)
         IN  IF qe = 0 THEN BigDivFrom(d, i - 1, <<0>> \o q, r1)
             ELSE BigDivFrom(d, i - 1, <<c.q>> \o q, c.r)

\* x / y: the quotient of the significands to DivLimbs limbs after the
\* point and whether a remainder is left, rounded
DDiv(x, y) ==
    IF x.kind = "nan" \/ y.kind = "nan" THEN DNaN
    ELSE IF x.kind = "inf"
    THEN (IF y.kind = "inf" THEN DNaN ELSE DInf(x.neg # y.neg))
    ELSE IF y.kind = "inf" THEN DZero
    ELSE IF IsZero(y) THEN (IF IsZero(x) THEN DNaN ELSE DInf(x.neg))
    ELSE IF IsZero(x) THEN DZero
    ELSE LET sh == Pow2(DivLimbs * LimbBits - MantissaBits)
             X  == BigMulSmall(x.m, sh)
             D  == BigMulSmall(y.m, sh)
             qr == IF BigCmp(X, D) >= 0
                   THEN BigDivFrom(D, DivLimbs, <<1>>, BigSub(X, D))
                   ELSE BigDivFrom(D, DivLimbs, <<>>, X)
             N  == BigAdd(BigMulSmall(qr.q, 2),
                          IF qr.r = <<>> THEN <<>> ELSE <<1>>)
         IN  RoundToDouble(x.neg # y.neg, N,
                           x.e - y.e - DivLimbs * LimbBits - 1)

\* n / c for the integers n and c, 0 < c < LimbBase: what DDiv gives for
\* DInt(n) and DInt(c), by the division of 2^(5 * LimbBits) * |n| by c
DDivInt(n, c) ==
    LET qr == BigDivSmall(BigShl(BigOf(IF n < 0 THEN 0 - n ELSE n),
                                 5 * LimbBits), c)
    IN  RoundToDouble(n < 0,
                      BigAdd(BigMulSmall(qr.q, 2),
                             IF qr.r = 0 THEN <<>> ELSE <<1>>),
                      0 - 5 * LimbBits - 1)

\* x < y
DLess(x, y) ==
    IF x.kind = "nan" \/ y.kind = "nan" THEN FALSE
    ELSE IF x.kind = "inf" THEN x.neg /\ ~(y.kind = "inf" /\ y.neg)
    ELSE IF y.kind = "inf" THEN ~y.neg
    ELSE LET diff == DSub(x, y) IN diff.neg /\ ~IsZero(diff)

\* the integer nearest to M * 2^E, halves upwards
RoundHalfUp(M, E) ==
    IF E >= 0 THEN IntOf(BigShl(M, E))
    ELSE LET q2 == BigShr(M, 0 - E - 1)
         IN  IntOf(BigDivSmall(q2, 2).q) + (Limb1(q2) % 2)

\* the integer nearest to M * 2^E, halves downwards
RoundHalfDown(M, E) ==
    IF E >= 0 THEN IntOf(BigShl(M, E))
    ELSE LET q2 == BigShr(M, 0 - E - 1)
         IN  IntOf(BigDivSmall(q2, 2).q)
               + (IF Limb1(q2) % 2 = 1 /\ LowBits(M, 0 - E - 1) THEN 1 ELSE 0)

\* Math.round(x) for a finite x: the nearest integer, a half towards +Infinity
MathRound(x) ==
    IF x.neg THEN 0 - RoundHalfDown(x.m, x.e) ELSE RoundHalfUp(x.m, x.e)

\* Number.EPSILON, 2^-52
EPSILON == RoundToDouble(FALSE, <<1>>, 0 - 52)

\* the double a number of the model stands for: a count n of thousandths is
\* the double nearest to n / 1000 (what Number gives for the numeral, and
\* what k / 100 gives for an integer k with n = 10 * k)
Double(n) == DDivInt(n, 1000)

\* Number.prototype.toFixed(0) and toFixed(2): the integer n with n / 10^f
\* nearest to the exact value of |x|, the larger n of two, as digits
toFixedDigits(x, f) ==
    IF x.kind = "nan" THEN "NaN"
    ELSE IF x.kind = "inf" THEN (IF x.neg THEN "-Infinity" ELSE "Infinity")
    ELSE LET n == RoundHalfUp(BigMulSmall(x.m, Pow10(f)), x.e)
         IN  (IF x.neg THEN "-" ELSE "")
               \o (IF f = 0 THEN ToString(n)
                   ELSE ToString(n \div 100) \o "."
                          \o (IF n % 100 < 10 THEN "0" ELSE "")
                          \o ToString(n % 100))

(***************************************************************************)
(* The decoder, sankeyplot.                                                *)
(***************************************************************************)
EmptyData ==
    [nodes |-> <<>>, links |-> <<>>, budget_actual |-> <<>>,
     collapsed_links |-> <<>>]

Edge(s, t, v) == [source |-> s, target |-> t, value |-> v]

\* array(object({nodes_ss: string, links_ss: string}))
sankeyplot_validator(j) == j.shape = "records"

\* first_part.includes("Assets") || ... || first_part.includes("Equity")
CollapseTarget(first_part) ==
    \/ Includes(first_part, "Assets")
    \/ Includes(first_part, "Expenses")
    \/ Includes(first_part, "Equity")

\* a plain flow edge put in front of the edges decoded before it
PlainLinkFirst(st, link, val_ss) ==
    [st EXCEPT !.data.links =
        <<Edge(link[1], link[2], Number(val_ss[1]))>> \o st.data.links]

\* val_ss.length == 1: a plain flow edge
PlainLink(st, link, val_ss) ==
    [st EXCEPT !.data.links =
        Append(st.data.links, Edge(link[1], link[2], Number(val_ss[1])))]

\* val_ss[1] == "collapsed": mark the elided endpoint in the record's
\* collapsed_map and keep the edge in collapsed_links; first_part is
\* undefined, and .includes throws, when the first colon segment of the
\* source holds no underscore
CollapsedLink(st, link, val_ss) ==
    LET pieces == Split(Split(link[1], ":")[1], "_")
    IN  IF Len(pieces) < 2
        THEN [st EXCEPT !.threw = TRUE]
        ELSE [st EXCEPT
                !.collapsed_map =
                    st.collapsed_map \cup
                      {IF CollapseTarget(pieces[2]) THEN link[2] ELSE link[1]},
                !.data.collapsed_links =
                    Append(st.data.collapsed_links,
                           Edge(link[1], link[2], Number(val_ss[1])))]

BudgetLinkSameToken(st, link, val_ss) ==
    [st EXCEPT
       !.data.links =
           Append(st.data.links, Edge(link[1], link[2], Number(val_ss[1]))),
       !.data.budget_actual =
           Append(st.data.budget_actual,
                  Edge(link[1], link[2], Number(val_ss[1])))]

\* two tokens, the second not "collapsed": a flow edge and its budget overlay
BudgetLink(st, link, val_ss) ==
    [st EXCEPT
       !.data.links =
           Append(st.data.links, Edge(link[1], link[2], Number(val_ss[1]))),
       !.data.budget_actual =
           Append(st.data.budget_actual,
                  Edge(link[1], link[2], Number(val_ss[2])))]

OtherLinkThrows(st, link, val_ss) == [st EXCEPT !.threw = TRUE]

\* any other token count: no branch of the if/else-if chain is taken
OtherLink(st, link, val_ss) == st

\* one iteration of `for (const link of links)`; st carries data, the
\* record's collapsed_map (as the set of its keys) and whether a TypeError
\* was thrown
DecodeLink(st, link) ==
    LET val_ss == Split(link[3], " ")
    IN  IF st.threw THEN st
        ELSE IF Len(val_ss) = 1 THEN PlainLink(st, link, val_ss)
        ELSE IF Len(val_ss) = 2
        THEN IF val_ss[2] = <<"collapsed">>
             THEN CollapsedLink(st, link, val_ss)
             ELSE BudgetLink(st, link, val_ss)
        ELSE OtherLink(st, link, val_ss)

RECURSIVE DecodeLinks(_, _)
DecodeLinks(st, links) ==
    IF links = <<>> THEN st
    ELSE DecodeLinks(DecodeLink(st, Head(links)), Tail(links))

\* `for (const node of nodes)`: push every node the record's map does not hold
RECURSIVE EmitNodes(_, _, _)
EmitNodes(nodes, collapsed_map, out) ==
    IF nodes = <<>> THEN out
    ELSE EmitNodes(Tail(nodes), collapsed_map,
                   IF Head(nodes) \in collapsed_map
                   THEN out ELSE Append(out, Head(nodes)))

\* the body of `for (const { nodes_ss, links_ss } of parsedData)`;
\* JSON.parse throws on text that is not JSON
DecodeRecord(st, rec) ==
    IF st.threw THEN st
    ELSE IF ~rec.links_ss.wf THEN [st EXCEPT !.threw = TRUE]
    ELSE LET after == DecodeLinks([st EXCEPT !.collapsed_map = {}],
                                  rec.links_ss.val)
         IN  IF after.threw THEN after
             ELSE IF ~rec.nodes_ss.wf THEN [after EXCEPT !.threw = TRUE]
             ELSE [after EXCEPT !.data.nodes =
                      EmitNodes(rec.nodes_ss.val, after.collapsed_map,
                                after.data.nodes)]

RECURSIVE DecodeRecords(_, _)
DecodeRecords(st, recs) ==
    IF recs = <<>> THEN st
    ELSE DecodeRecords(DecodeRecord(st, Head(recs)), Tail(recs))

\* sankeyplot(json): "err" is the validator's unsuccessful Result, "throw" an
\* exception leaving the function, "ok" the Result carrying data
sankeyplot(j) ==
    IF ~sankeyplot_validator(j)
    THEN [status |-> "err", data |-> EmptyData]
    ELSE LET st == DecodeRecords(
                     [data |-> EmptyData, collapsed_map |-> {}, threw |-> FALSE],
                     j.records)
         IN  IF st.threw
             THEN [status |-> "throw", data |-> EmptyData]
             ELSE [status |-> "ok", data |-> st.data]

(***************************************************************************)
(* The layout, sankey($data) of d3-sankey: every node gets its array       *)
(* position as index, every link's source and target id is replaced by     *)
(* the node of that id (the last one, when an id occurs twice); an id that *)
(* names no node, or a circular link, makes the layout throw.              *)
(***************************************************************************)
Max(a, b) == IF a >= b THEN a ELSE b

IndexOf(nodes, id) ==
    LET S == {i \in 1..Len(nodes) : nodes[i] = id}
    IN  IF S = {} THEN 0 ELSE CHOOSE i \in S : \A j \in S : j <= i

RECURSIVE ReachFrom(_, _)
ReachFrom(S, links) ==
    LET N == S \cup {links[i].target :
                       i \in {j \in 1..Len(links) : links[j].source \in S}}
    IN  IF N = S THEN S ELSE ReachFrom(N, links)

Circular(links) ==
    \E i \in 1..Len(links) :
        links[i].source \in ReachFrom({links[i].target}, links)

Missing(data) ==
    \E i \in 1..Len(data.links) :
        \/ IndexOf(data.nodes, data.links[i].source) = 0
        \/ IndexOf(data.nodes, data.links[i].target) = 0

sankey(data) ==
    [data EXCEPT !.links =
        [i \in 1..Len(data.links) |->
            Edge(IndexOf(data.nodes, data.links[i].source),
                 IndexOf(data.nodes, data.links[i].target),
                 data.links[i].value)]]

(***************************************************************************)
(* compute_total.                                                          *)
(***************************************************************************)
\* Math.round((value + Number.EPSILON) * 100) / 100 for a finite value: the
\* division of the integer k by 100 gives the double nearest to k / 100,
\* which is held as 10 * k thousandths
Round2(value) == 10 * MathRound(DMulInt(DAdd(value, EPSILON), 100))

Zeros(n) == [i \in 1..n |-> 0]

\* the first loop of compute_total
RECURSIVE InDegree(_, _)
InDegree(n, links) ==
    IF links = <<>> THEN Zeros(n)
    ELSE LET d == InDegree(n, SubSeq(links, 1, Len(links) - 1))
             t == links[Len(links)].target
         IN  [d EXCEPT ![t] = d[t] + 1]

\* the target is assigned, not accumulated
TotalStepOverwrite(ans, indeg, edge) ==
    LET a1 == IF indeg[edge.source] = 0
              THEN [ans EXCEPT ![edge.source] =
                      Round2(DAdd(Double(edge.value),
                                  Double(ans[edge.source])))]
              ELSE ans
    IN  [a1 EXCEPT ![edge.target] = Round2(Double(edge.value))]

\* one iteration of the second loop of compute_total
TotalStep(ans, indeg, edge) ==
    LET source == edge.source
        target == edge.target
        a1 == IF indeg[source] = 0
              THEN [ans EXCEPT ![source] =
                      Round2(DAdd(Double(edge.value), Double(ans[source])))]
              ELSE ans
    IN  [a1 EXCEPT ![target] =
            Round2(DAdd(Double(a1[target]), Double(edge.value)))]

(***************************************************************************)
(* compute_percent.                                                        *)
(***************************************************************************)
\* a percent is a double
PctZero == DZero
PctOne == DInt(1)
Finite(p) == IsFinite(p)

\* Math.round((t / s + Number.EPSILON) * 100) / 100 for the totals t and s;
\* what is not finite (a division by 0) stays as it is
Ratio2(t, s) ==
    LET value  == DDiv(Double(t), Double(s))
        sum    == DAdd(value, EPSILON)
        scaled == IF IsFinite(sum) THEN DMulInt(sum, 100) ELSE sum
    IN  IF IsFinite(scaled)
        THEN DDivInt(MathRound(scaled), 100)
        ELSE scaled

\* ... * ans[source]
PctMul(p, q) == DMul(p, q)

\* p < q
PctLess(p, q) == DLess(p, q)

Marker(id) == Includes(id, "Income") \/ Includes(id, "Assets")

\* edge.target.id.includes("Expenses") && edge.target.id.split(":").length > 2
Rebased(id) == Includes(id, "Expenses") /\ Len(Split(id, ":")) > 2

\* the (possibly swapped) source and target of one iteration
PSource(gr, edge) ==
    IF Marker(gr.nodes[edge.target]) THEN edge.target ELSE edge.source
PTarget(gr, edge) ==
    IF Marker(gr.nodes[edge.target]) THEN edge.source ELSE edge.target

DividesNonNegative(gr, total, edge) == total[PSource(gr, edge)] >= 0

\* whether the iteration passes the guard `nodes_total[source] > 0`
Divides(gr, total, edge) == total[PSource(gr, edge)] > 0

\* the root is never set to 1
PercentStepNoRoot(ans, gr, total, edge) ==
    LET source == PSource(gr, edge)
        target == PTarget(gr, edge)
    IN  IF Divides(gr, total, edge)
        THEN LET value == Ratio2(total[target], total[source])
             IN  IF Rebased(gr.nodes[edge.target])
                 THEN [ans EXCEPT ![target] = PctMul(value, ans[source])]
                 ELSE [ans EXCEPT ![target] = value]
        ELSE ans

\* compute_percent without the multiplication by the parent's percent
PercentStepUnscaled(ans, gr, total, edge) ==
    LET source == PSource(gr, edge)
        target == PTarget(gr, edge)
        a1 == IF ~Marker(gr.nodes[edge.target]) /\ Marker(gr.nodes[edge.source])
              THEN [ans EXCEPT ![source] = PctOne] ELSE ans
    IN  IF Divides(gr, total, edge)
        THEN [a1 EXCEPT ![target] = Ratio2(total[target], total[source])]
        ELSE a1

\* one iteration of the loop of compute_percent
PercentStep(ans, gr, total, edge) ==
    LET source == PSource(gr, edge)
        target == PTarget(gr, edge)
        a1 == IF ~Marker(gr.nodes[edge.target]) /\ Marker(gr.nodes[edge.source])
              THEN [ans EXCEPT ![source] = PctOne]
              ELSE ans
    IN  IF Divides(gr, total, edge)
        THEN LET value == Ratio2(total[target], total[source])
             IN  IF Rebased(gr.nodes[edge.target])
                 THEN [a1 EXCEPT ![target] = PctMul(value, a1[source])]
                 ELSE [a1 EXCEPT ![target] = value]
        ELSE a1

(***************************************************************************)
(* compute_budget_actual.                                                  *)
(***************************************************************************)
\* name_index_map.get(id): the index of the node a link targets under that
\* id, 0 for undefined
NameIndex(gr, id) ==
    IF \E i \in 1..Len(gr.links) : gr.nodes[gr.links[i].target] = id
    THEN IndexOf(gr.nodes, id)
    ELSE 0

\* the overlay values that target one node added up
ActualStepSum(actual, gr, edge) ==
    LET target == NameIndex(gr, edge.target)
    IN  IF target = 0 THEN actual
        ELSE [actual EXCEPT ![target] = actual[target] + edge.value]

\* one iteration of `for (const edge of g.budget_actual)`; a store under
\* the key undefined changes no element of the array
ActualStep(actual, gr, edge) ==
    LET target == NameIndex(gr, edge.target)
    IN  IF target = 0 THEN actual
        ELSE [actual EXCEPT ![target] = edge.value]

RECURSIVE ActualLoop(_, _, _)
ActualLoop(actual, gr, edges) ==
    IF edges = <<>> THEN actual
    ELSE ActualLoop(ActualStep(actual, gr, Head(edges)), gr, Tail(edges))

compute_budget_actual(gr) ==
    ActualLoop(Zeros(Len(gr.nodes)), gr, gr.budget_actual)

(***************************************************************************)
(* compute_name.                                                           *)
(***************************************************************************)
exclude_percent_wide == DDivInt(5, 100)

\* let exclude_percent = 0.005
exclude_percent == DDivInt(5, 1000)

\* x.toFixed(2)
toFixed2(x) == toFixedDigits(x, 2)

\* (percent * 100).toFixed(0)
PercentFixed0(p) == toFixedDigits(IF IsFinite(p) THEN DMulInt(p, 100) ELSE p, 0)

\* the short display name: the last colon segment, after its last underscore
ShortName(id) ==
    LET segs == Split(id, ":")
        ss   == segs[Len(segs)]
        sp   == Split(ss, "_")
    IN  Text(sp[Len(sp)])

\* node.id.split("_")[1]
CategorySuffix(id) ==
    LET sp == Split(id, "_")
    IN  IF Len(sp) >= 2 THEN Text(sp[2]) ELSE "undefined"

PercentLabel(id, total, percent) ==
    IF Len(Split(id, ":")) > 2 /\ PctLess(percent, exclude_percent)
    THEN ""
    ELSE ShortName(id) \o ": " \o toFixed2(Double(total))
           \o " (" \o PercentFixed0(percent) \o "%)"

\* the budget itself, not what is left of it
BudgetBracketActual(total, actual) ==
    "[" \o toFixed2(Double(total)) \o "/" \o toFixed2(Double(actual)) \o "]"

BudgetBracket(total, actual) ==
    "[" \o toFixed2(Double(total)) \o "/"
        \o toFixed2(DSub(Double(total), Double(actual))) \o "]"

BudgetLabel(id, total, actual, percent) ==
    CategorySuffix(id) \o " " \o BudgetBracket(total, actual)
       \o " (" \o PercentFixed0(percent) \o "%)"

\* g.budget_actual.length == 0
PercentMode(gr) == Len(gr.budget_actual) = 0

compute_name(gr, total, percent, actual) ==
    [i \in 1..Len(gr.nodes) |->
        IF PercentMode(gr)
        THEN PercentLabel(gr.nodes[i], total[i], percent[i])
        ELSE BudgetLabel(gr.nodes[i], total[i], actual[i], percent[i])]

(***************************************************************************)
(* colorLinks and the ordinal scale.                                       *)
(***************************************************************************)
\* colors10 = hclColorRange(10): a colour is its position in the palette
PaletteSize == 10

\* the position of id in the domain of the scale, 0 when it was never asked
DomainIndex(domain, id) ==
    IF \E i \in 1..Len(domain) : domain[i] = id
    THEN CHOOSE i \in 1..Len(domain) : domain[i] = id
    ELSE 0

\* scatterplotScale(id): an id not in the domain is appended to it; the
\* colour is the range entry at the id's domain position modulo the range
scatterplotScale(domain, id) ==
    LET d2 == IF DomainIndex(domain, id) = 0 THEN Append(domain, id) ELSE domain
    IN  [domain |-> d2, colour |-> (DomainIndex(d2, id) - 1) % PaletteSize]

\* colorLinks with every link coloured by its source
colorLinksBySource(domain, gr, d) ==
    scatterplotScale(domain, gr.nodes[d.source])

\* colorLinks(d)
colorLinks(domain, gr, d) ==
    LET src == Includes(gr.nodes[d.source], "Income")
        tar == Includes(gr.nodes[d.target], "Income")
    IN  IF src /\ tar THEN scatterplotScale(domain, gr.nodes[d.source])
        ELSE IF src THEN scatterplotScale(domain, gr.nodes[d.target])
        ELSE LET tmp == Split(gr.nodes[d.source], ":")
             IN  IF Len(tmp) = 1
                 THEN scatterplotScale(domain, gr.nodes[d.target])
                 ELSE scatterplotScale(domain, gr.nodes[d.source])

(***************************************************************************)
(* Inputs.                                                                 *)
(***************************************************************************)
Income        == <<"Income">>
IncomeJob     == <<"Income", ":", "Job">>
IncomeGift    == <<"Income", ":", "Gift">>
Expenses      == <<"Expenses">>
ExpensesFood  == <<"Expenses", ":", "Food">>
ExpensesRent  == <<"Expenses", ":", "Rent">>
ExpensesOut   == <<"Expenses", ":", "Food", ":", "Out">>
AssetsBank    == <<"Assets", ":", "Bank">>
TagRent       == <<"01", "_", "Expenses", ":", "Rent">>
TagBank       == <<"02", "_", "Assets", ":", "Bank">>
TagJob        == <<"03", "_", "Income", ":", "Job">>

Collapsed500  == <<"5", "0", "0", " ", "collapsed">>
ThreeTokens   == <<"abc", " ", "def", " ", "ghi">>
TwoSpaces     == <<"4", "0", " ", " ", "5", "0">>
V40and50      == <<"4", "0", " ", "5", "0">>
V40and0       == <<"4", "0", " ", "0">>
V100          == <<"1", "0", "0">>
V40           == <<"4", "0">>
V2p135        == <<"2", ".", "1", "3", "5">>
V900          == <<"9", "0", "0">>
VMinus10      == <<"-", "1", "0">>
V4            == <<"4">>
V6            == <<"6">>
V0            == <<"0">>

\* the link tuples of the decoder domain
DecodeTuples ==
    { <<TagRent, TagBank, Collapsed500>>,
      <<TagJob, TagBank, Collapsed500>>,
      <<ExpensesRent, AssetsBank, Collapsed500>>,
      <<TagJob, TagRent, V40and50>>,
      <<TagJob, TagRent, V100>>,
      <<TagJob, TagRent, ThreeTokens>>,
      <<TagJob, TagRent, TwoSpaces>> }

\* the link tuples of the flow domain
FlowTuples ==
    { <<IncomeJob, Income, V100>>,
      <<IncomeGift, Income, V2p135>>,
      <<Income, ExpensesFood, V40>>,
      <<Income, ExpensesFood, V40and50>>,
      <<Income, ExpensesFood, V40and0>>,
      <<Income, ExpensesRent, V900>>,
      <<Income, ExpensesRent, VMinus10>>,
      <<ExpensesFood, ExpensesOut, V4>>,
      <<ExpensesFood, ExpensesOut, V6>>,
      <<Expenses, ExpensesFood, V0>>,
      <<Income, AssetsBank, V40>> }

DecodeNodes == <<TagRent, TagBank, TagJob>>
FlowNodes ==
    <<Income, IncomeJob, IncomeGift, ExpensesFood, ExpensesRent,
      ExpensesOut, Expenses, AssetsBank>>

\* a JSON text: well-formed with the value it parses to, or not JSON
JsonText(v) == [wf |-> TRUE, val |-> v]
NotJson == [wf |-> FALSE, val |-> <<>>]

Payload(recs) == [shape |-> "records", records |-> recs]
NotRecords == [shape |-> "other", records |-> <<>>]

\* the ways to deal m link tuples, in order, to r records
Deals(m, r) ==
    {c \in [1..m -> 1..r] : \A i \in 1..(m - 1) : c[i] <= c[i + 1]}

\* the payload of Len(listed) records that deals the tuples ls by c; record
\* i lists the nodes of the decoder domain when listed[i], no node otherwise
DecodePayload(ls, c, listed) ==
    Payload([i \in 1..Len(listed) |->
        [nodes_ss |-> JsonText(IF listed[i] THEN DecodeNodes ELSE <<>>),
         links_ss |->
            JsonText(SubSeq(ls,
                            1 + Cardinality({j \in 1..Len(ls) : c[j] < i}),
                            Cardinality({j \in 1..Len(ls) : c[j] <= i})))]])

FlowPayload(ls) ==
    Payload(<<[nodes_ss |-> JsonText(FlowNodes), links_ss |-> JsonText(ls)]>>)

\* payloads the decoder rejects: not an array of records, a field not JSON
BrokenPayloads ==
    {NotRecords,
     Payload(<<[nodes_ss |-> JsonText(DecodeNodes), links_ss |-> NotJson]>>),
     Payload(<<[nodes_ss |-> NotJson, links_ss |-> JsonText(<<>>)]>>)}

(***************************************************************************)
(* The pipeline.                                                           *)
(***************************************************************************)
Pending == [status |-> "pending", data |-> EmptyData]

InitRest ==
    /\ pc = "parse"
    /\ result = Pending
    /\ g = EmptyData
    /\ in_degree = <<>>
    /\ nodes_total = <<>>
    /\ node_max = 0
    /\ k = 0
    /\ nodes_percent = <<>>
    /\ divided = FALSE
    /\ nodes_actual = <<>>
    /\ nodes_name = <<>>
    /\ scale_domain = <<>>
    /\ link_colour = <<>>
    /\ passes = 1

InitDecode ==
    \E r \in 0..MaxRecords, m \in 0..MaxDecodeLinks :
        \E ls \in [1..m -> DecodeTuples], c \in Deals(m, r),
           listed \in [1..r -> BOOLEAN] :
            json = DecodePayload(ls, c, listed)

InitFlow ==
    \E m \in 0..MaxFlowLinks :
        \E ls \in [1..m -> FlowTuples] : json = FlowPayload(ls)

Init ==
    /\ InitDecode \/ InitFlow \/ json \in BrokenPayloads
    /\ InitRest

\* parseChartData hands the chart's data to sankeyplot; an unsuccessful
\* Result is skipped
Parse ==
    /\ pc = "parse"
    /\ result' = sankeyplot(json)
    /\ pc' = IF result'.status = "ok" THEN "layout" ELSE "nochart"
    /\ UNCHANGED <<json, g, in_degree, nodes_total, node_max, k,
                   nodes_percent, divided, nodes_actual, nodes_name,
                   scale_domain, link_colour, passes>>

\* $: sankeyData = sankey($data)
Layout ==
    /\ pc = "layout"
    /\ IF Missing(result.data) \/ Circular(result.data.links)
       THEN pc' = "layoutthrew" /\ g' = g
       ELSE pc' = "laid" /\ g' = sankey(result.data)
    /\ UNCHANGED <<json, result, in_degree, nodes_total, node_max, k,
                   nodes_percent, divided, nodes_actual, nodes_name,
                   scale_domain, link_colour, passes>>

\* compute_total up to its second loop
TotalBegin ==
    /\ pc = "laid"
    /\ pc' = "total"
    /\ nodes_total' = Zeros(Len(g.nodes))
    /\ in_degree' = InDegree(Len(g.nodes), g.links)
    /\ k' = 0
    /\ UNCHANGED <<json, result, g, node_max, nodes_percent, divided,
                   nodes_actual, nodes_name,
                   scale_domain, link_colour, passes>>

\* one iteration of the second loop of compute_total
TotalEdge ==
    /\ pc = "total"
    /\ k < Len(g.links)
    /\ nodes_total' = TotalStep(nodes_total, in_degree, g.links[k + 1])
    /\ node_max' = Max(node_max, nodes_total'[g.links[k + 1].target])
    /\ k' = k + 1
    /\ UNCHANGED <<json, pc, result, g, in_degree, nodes_percent, divided,
                   nodes_actual, nodes_name,
                   scale_domain, link_colour, passes>>

\* compute_total returns; compute_percent up to its loop
PercentBegin ==
    /\ pc = "total"
    /\ k = Len(g.links)
    /\ pc' = "percent"
    /\ nodes_percent' = [i \in 1..Len(g.nodes) |-> PctZero]
    /\ k' = 0
    /\ UNCHANGED <<json, result, g, in_degree, nodes_total, node_max,
                   divided, nodes_actual, nodes_name,
                   scale_domain, link_colour, passes>>

\* one iteration of the loop of compute_percent
PercentEdge ==
    /\ pc = "percent"
    /\ k < Len(g.links)
    /\ nodes_percent' = PercentStep(nodes_percent, g, nodes_total, g.links[k + 1])
    /\ divided' = Divides(g, nodes_total, g.links[k + 1])
    /\ k' = k + 1
    /\ UNCHANGED <<json, pc, result, g, in_degree, nodes_total, node_max,
                   nodes_actual, nodes_name,
                   scale_domain, link_colour, passes>>

\* compute_percent returns; compute_budget_actual
BudgetActual ==
    /\ pc = "percent"
    /\ k = Len(g.links)
    /\ pc' = "name"
    /\ nodes_actual' = compute_budget_actual(g)
    /\ UNCHANGED <<json, result, g, in_degree, nodes_total, node_max, k,
                   nodes_percent, divided, nodes_name,
                   scale_domain, link_colour, passes>>

\* compute_name
Name ==
    /\ pc = "name"
    /\ pc' = "done"
    /\ nodes_name' = compute_name(g, nodes_total, nodes_percent, nodes_actual)
    /\ UNCHANGED <<json, result, g, in_degree, nodes_total, node_max, k,
                   nodes_percent, divided, nodes_actual,
                   scale_domain, link_colour, passes>>

\* {#each sankeyData.links as d}: the next link is drawn, stroke colorLinks(d)
RenderLink ==
    /\ pc = "done"
    /\ Len(link_colour) < Len(g.links)
    /\ LET c == colorLinks(scale_domain, g, g.links[Len(link_colour) + 1])
       IN  /\ scale_domain' = c.domain
           /\ link_colour' = Append(link_colour, c.colour)
    /\ UNCHANGED <<json, pc, result, g, in_degree, nodes_total, node_max, k,
                   nodes_percent, divided, nodes_actual, nodes_name, passes>>

\* the payloads a drawn chart is given next
RebuildPayloads ==
    {FlowPayload(<<t>>) :
        t \in { <<Income, ExpensesFood, V40>>,
                <<Income, ExpensesRent, V900>>,
                <<IncomeJob, Income, V100>>,
                <<ExpensesFood, ExpensesOut, V4>> }}

\* the $data store changes under a drawn chart: every reactive statement
\* ($: ... ($data)) runs again on the same component and assigns its
\* variable anew, the links are drawn again; node_max and the domain of
\* scatterplotScale are declared once per component and keep their values
DataChange ==
    /\ pc = "done"
    /\ Len(link_colour) = Len(g.links)
    /\ passes < MaxPasses
    /\ passes' = passes + 1
    /\ json' \in RebuildPayloads
    /\ pc' = "parse"
    /\ result' = Pending
    /\ g' = EmptyData
    /\ in_degree' = <<>>
    /\ nodes_total' = <<>>
    /\ k' = 0
    /\ nodes_percent' = <<>>
    /\ divided' = FALSE
    /\ nodes_actual' = <<>>
    /\ nodes_name' = <<>>
    /\ link_colour' = <<>>
    /\ UNCHANGED <<node_max, scale_domain>>

Next ==
    \/ Parse
    \/ Layout
    \/ TotalBegin
    \/ TotalEdge
    \/ PercentBegin
    \/ PercentEdge
    \/ BudgetActual
    \/ Name
    \/ RenderLink
    \/ DataChange

Spec == Init /\ [][Next]_vars

(***************************************************************************)
(* Properties of the decoder.                                              *)
(***************************************************************************)
Range(f) == {f[i] : i \in DOMAIN f}

Parsed == pc # "parse"
Decoded == Parsed /\ result.status = "ok"

\* all link tuples of a payload, records in payload order
RECURSIVE TuplesOf(_)
TuplesOf(recs) ==
    IF recs = <<>> THEN <<>>
    ELSE Head(recs).links_ss.val \o TuplesOf(Tail(recs))

TokenCount(tuple) == Len(Split(tuple[3], " "))

IsNumeral(piece) ==
    /\ piece # <<>>
    /\ \A i \in 1..Len(piece) :
          piece[i] \in {"0", "1", "2", "3", "4", "5", "6", "7", "8", "9", ".", "-"}

IsCollapsedToken(tuple) ==
    LET v == Split(tuple[3], " ")
    IN  Len(v) = 2 /\ IsNumeral(v[1]) /\ v[2] = <<"collapsed">>

IsTwoNumbers(tuple) ==
    LET v == Split(tuple[3], " ")
    IN  Len(v) = 2 /\ IsNumeral(v[1]) /\ IsNumeral(v[2])

IsOneNumber(tuple) ==
    LET v == Split(tuple[3], " ")
    IN  Len(v) = 1 /\ IsNumeral(v[1])

\* the top-level category of an id: the token before the first colon,
\* without its underscore prefix
TopCategory(id) ==
    LET sp == Split(Split(id, ":")[1], "_")
    IN  sp[Len(sp)]

CollapsesTarget(id) ==
    TopCategory(id) \in {<<"Assets">>, <<"Expenses">>, <<"Equity">>}

\* C1: for every collapsed edge of a decoded graph, the target id (source
\* category Assets, Expenses or Equity) or else the source id appears
\* nowhere in the nodes of the graph, whichever record listed it.
C1_CollapseExclusivity ==
    Decoded =>
        \A c \in Range(result.data.collapsed_links) :
            IF CollapsesTarget(c.source)
            THEN c.target \notin Range(result.data.nodes)
            ELSE c.source \notin Range(result.data.nodes)

\* C2: a payload of well-formed records is always decoded, whatever the
\* source ids of its "<number> collapsed" tuples, each such tuple is kept
\* in collapsed_links only, and the target of one whose source category
\* is Expenses is absent from the nodes.
C2_CollapsedAlwaysDecodes ==
    (Parsed /\ json.shape = "records"
       /\ \A i \in 1..Len(json.records) :
             json.records[i].links_ss.wf /\ json.records[i].nodes_ss.wf)
    => \A t \in Range(TuplesOf(json.records)) :
          IsCollapsedToken(t) =>
             LET e == Edge(t[1], t[2], Number(Split(t[3], " ")[1]))
             IN  /\ result.status = "ok"
                 /\ e \in Range(result.data.collapsed_links)
                 /\ e \notin Range(result.data.links)
                 /\ e \notin Range(result.data.budget_actual)

\* the flow edges and the overlay edges the tuples of a payload stand for
RECURSIVE FlowEdgesOf(_)
FlowEdgesOf(tuples) ==
    IF tuples = <<>> THEN <<>>
    ELSE LET t == Head(tuples)
             v == Split(t[3], " ")
         IN  (IF IsOneNumber(t) \/ IsTwoNumbers(t)
              THEN <<Edge(t[1], t[2], Number(v[1]))>> ELSE <<>>)
               \o FlowEdgesOf(Tail(tuples))

RECURSIVE OverlayEdgesOf(_)
OverlayEdgesOf(tuples) ==
    IF tuples = <<>> THEN <<>>
    ELSE LET t == Head(tuples)
             v == Split(t[3], " ")
         IN  (IF IsTwoNumbers(t)
              THEN <<Edge(t[1], t[2], Number(v[2]))>> ELSE <<>>)
               \o OverlayEdgesOf(Tail(tuples))

\* C3: every tuple of two numeric tokens yields exactly one flow edge with
\* the first token as value and exactly one overlay edge with the second,
\* both with the tuple's source and target, so every overlay edge has a
\* flow edge with its source and target.
C3_TwoNumbersBothEdges ==
    Decoded =>
        /\ result.data.links = FlowEdgesOf(TuplesOf(json.records))
        /\ result.data.budget_actual = OverlayEdgesOf(TuplesOf(json.records))
        /\ \A b \in Range(result.data.budget_actual) :
              \E l \in Range(result.data.links) :
                  l.source = b.source /\ l.target = b.target

C3_Witness ==
    /\ Decoded
    /\ \E t \in Range(TuplesOf(json.records)) : IsTwoNumbers(t)
    /\ \E t \in Range(TuplesOf(json.records)) : IsCollapsedToken(t)
    /\ result.data.links = <<Edge(TagJob, TagRent, 40000)>>
    /\ result.data.budget_actual = <<Edge(TagJob, TagRent, 50000)>>

\* the payload without the tuples whose token count is neither one nor two
StripRecord(rec) ==
    [rec EXCEPT !.links_ss.val =
        SelectSeq(rec.links_ss.val, LAMBDA t : TokenCount(t) \in {1, 2})]

Strip(j) ==
    [j EXCEPT !.records = [i \in 1..Len(j.records) |-> StripRecord(j.records[i])]]

\* C4: a tuple whose token count is neither one nor two changes nothing:
\* the decoder returns what it returns for the payload without it, the
\* same outcome and the same nodes, links, collapsed_links, budget_actual.
C4_MalformedDropped == Parsed => result = sankeyplot(Strip(json))

C4_Witness ==
    /\ Decoded
    /\ Strip(json) # json
    /\ \E t \in Range(TuplesOf(json.records)) : t[3] = ThreeTokens
    /\ Len(result.data.links) = 1
    /\ Len(result.data.nodes) > 0

(***************************************************************************)
(* Properties of the annotation passes.                                    *)
(***************************************************************************)
TotalsDone ==
    \/ pc \in {"percent", "name", "done"}
    \/ pc = "total" /\ k = Len(g.links)

PercentsDone ==
    \/ pc \in {"name", "done"}
    \/ pc = "percent" /\ k = Len(g.links)

Incoming(i) == {j \in 1..Len(g.links) : g.links[j].target = i}
Outgoing(i) == {j \in 1..Len(g.links) : g.links[j].source = i}

\* a number of thousandths to 2 decimals, halves upwards
Cents(v) == 10 * ((v + 5) \div 10)

\* the number n / 10^d as a percent
Decimal(n, d) == DDivInt(n, Pow10(d))

\* the sum of the 2-decimal values of the links at the positions in S
RECURSIVE SumAt(_)
SumAt(S) ==
    IF S = {} THEN 0
    ELSE LET j == CHOOSE j \in S : TRUE
         IN  Round2(Double(g.links[j].value)) + SumAt(S \ {j})

At(id) == IndexOf(g.nodes, id)

\* C5: after the total pass a node without incoming links holds the sum of
\* its outgoing values and any other node the sum of its incoming values,
\* each to 2 decimals, whatever the order of the links; Income:Job->Income
\* (100) and Income->Expenses:Food (40) give Income 100 and Expenses:Food 40.
C5_TotalsAreSums ==
    TotalsDone =>
        /\ \A i \in 1..Len(g.nodes) :
              nodes_total[i] =
                 IF Incoming(i) = {} THEN SumAt(Outgoing(i)) ELSE SumAt(Incoming(i))
        /\ Range(g.links) = {Edge(At(IncomeJob), At(Income), 100000),
                             Edge(At(Income), At(ExpensesFood), 40000)}
           /\ Len(g.links) = 2
           => /\ nodes_total[At(Income)] = 100000
              /\ nodes_total[At(ExpensesFood)] = 40000

NonNegativeValues == \A j \in 1..Len(g.links) : g.links[j].value >= 0

\* C6: with non-negative link values, every step of the total pass leaves
\* every running total non-negative and no smaller than it was.
C6_TotalMonotone ==
    [][(pc = "total" /\ NonNegativeValues)
         => \A i \in 1..Len(g.nodes) :
               nodes_total'[i] >= nodes_total[i] /\ nodes_total'[i] >= 0]_vars

C6_Witness ==
    /\ pc = "total"
    /\ NonNegativeValues
    /\ k = 3
    /\ \E i \in 1..Len(g.nodes) :
          /\ Cardinality(Incoming(i)) = 2
          /\ nodes_total[i] > Cents(g.links[k].value)
          /\ g.links[k].target = i

\* C7 as stated: after the percent pass every node whose id holds an Income
\* or Assets marker and that has no incoming link has percent exactly 1.
C7_RootPercentOne ==
    PercentsDone =>
        \A i \in 1..Len(g.nodes) :
            Marker(g.nodes[i]) /\ Incoming(i) = {} => nodes_percent[i] = PctOne

\* C7 as amended: after the percent pass every node whose id holds an
\* Income or Assets marker, that has no incoming link, and that has at
\* least one outgoing link, all of them to ids without such a marker, has
\* percent exactly 1.
C7_FeedingRootPercentOne ==
    PercentsDone =>
        \A i \in 1..Len(g.nodes) :
            (/\ Marker(g.nodes[i])
             /\ Incoming(i) = {}
             /\ Outgoing(i) # {}
             /\ \A j \in Outgoing(i) : ~Marker(g.nodes[g.links[j].target]))
            => nodes_percent[i] = PctOne

C7_Witness ==
    /\ PercentsDone
    /\ Len(g.links) = 3
    /\ Incoming(At(Income)) = {}
    /\ Cardinality(Outgoing(At(Income))) = 2
    /\ \A j \in Outgoing(At(Income)) : ~Marker(g.nodes[g.links[j].target])
    /\ nodes_total[At(Income)] > 0
    /\ nodes_percent[At(Income)] = PctOne

\* C8: an iteration of the percent pass whose (possibly swapped) source has
\* total exactly zero performs no division and leaves the target's percent
\* as it was (0 when no earlier link set it).
C8_DivisionGuard ==
    [][(pc = "percent" /\ k < Len(g.links) /\ k' = k + 1
          /\ nodes_total[PSource(g, g.links[k + 1])] = 0)
         => /\ ~divided'
            /\ \A i \in 1..Len(g.nodes) : Finite(nodes_percent'[i])
            /\ nodes_percent'[PTarget(g, g.links[k + 1])]
                 = nodes_percent[PTarget(g, g.links[k + 1])]]_vars

C8_Witness ==
    /\ pc = "percent"
    /\ k >= 2
    /\ ~divided
    /\ nodes_total[PSource(g, g.links[k])] = 0
    /\ nodes_percent[PTarget(g, g.links[k])] # PctZero

Depth(id) == Len(Split(id, ":"))

\* C9: in percent mode compute_name leaves a label empty exactly when the id
\* has more than two colon segments and the percent is below 0.005; any
\* other label is "<name>: <total to 2 decimals> (<percent*100 rounded>%)".
\* The depth-3 node Expenses:Food:Out is unlabelled at 0.004 and
\* "Out: 6.00 (1%)" at 0.006.
C9_LabelSuppression ==
    [][(pc = "name" /\ pc' = "done" /\ Len(g.budget_actual) = 0) =>
        \A i \in 1..Len(g.nodes) :
            /\ nodes_name'[i] = ""
                 <=> (Depth(g.nodes[i]) > 2
                        /\ PctLess(nodes_percent[i], Decimal(5, 3)))
            /\ nodes_name'[i] # ""
                 => nodes_name'[i] =
                      ShortName(g.nodes[i]) \o ": "
                        \o toFixed2(Double(nodes_total[i]))
                        \o " (" \o PercentFixed0(nodes_percent[i]) \o "%)"
            /\ (g.nodes[i] = ExpensesOut /\ nodes_percent[i] = Decimal(4, 3))
                 => nodes_name'[i] = ""
            /\ (g.nodes[i] = ExpensesOut /\ nodes_percent[i] = Decimal(6, 3)
                  /\ nodes_total[i] = 6000)
                 => nodes_name'[i] = "Out: 6.00 (1%)"]_vars

C9_Witness ==
    /\ pc = "done"
    /\ Len(g.budget_actual) = 0
    /\ At(ExpensesOut) > 0
    /\ nodes_percent[At(ExpensesOut)] = Decimal(4, 3)
    /\ nodes_name[At(ExpensesOut)] = ""
    /\ nodes_name[At(ExpensesFood)] = "Food: 40.00 (4%)"

\* C10: one mode for all labels of a graph: with at least one overlay edge
\* compute_name gives every node the non-empty budget label holding
\* "[<total>/<total - actual>]", with none every node a percent label;
\* "40 50" from Income to Expenses:Food labels Expenses:Food with
\* "[40.00/-10.00]".
C10_LabelMode ==
    [][(pc = "name" /\ pc' = "done") =>
        /\ Len(g.budget_actual) >= 1 =>
              \A i \in 1..Len(g.nodes) :
                  /\ nodes_name'[i] # ""
                  /\ nodes_name'[i] =
                       CategorySuffix(g.nodes[i]) \o " "
                         \o "[" \o toFixed2(Double(nodes_total[i])) \o "/"
                         \o toFixed2(DSub(Double(nodes_total[i]),
                                          Double(nodes_actual[i]))) \o "]"
                         \o " (" \o PercentFixed0(nodes_percent[i]) \o "%)"
        /\ Len(g.budget_actual) = 0 =>
              \A i \in 1..Len(g.nodes) :
                  nodes_name'[i] =
                     PercentLabel(g.nodes[i], nodes_total[i], nodes_percent[i])
        /\ (/\ Len(g.links) = 1
            /\ g.budget_actual = <<Edge(Income, ExpensesFood, 50000)>>
            /\ g.links[1].value = 40000)
           => nodes_name'[At(ExpensesFood)] = "undefined [40.00/-10.00] (100%)"]_vars

C10_Witness ==
    /\ pc = "done"
    /\ Len(g.links) = 1
    /\ g.budget_actual = <<Edge(Income, ExpensesFood, 50000)>>
    /\ g.links[1].value = 40000
    /\ nodes_name[At(ExpensesFood)] = "undefined [40.00/-10.00] (100%)"
    /\ nodes_name[At(Income)] = "undefined [40.00/40.00] (100%)"

(***************************************************************************)
(* Properties of the link colours.                                         *)
(***************************************************************************)
\* the id whose colour link j takes, by the first rule that matches
ColourKey(j) ==
    LET s == g.nodes[g.links[j].source]
        t == g.nodes[g.links[j].target]
    IN  CASE Includes(s, "Income") /\ Includes(t, "Income") -> s
          [] Includes(s, "Income") /\ ~Includes(t, "Income") -> t
          [] ~Includes(s, "Income") /\ ~Includes(s, ":") -> t
          [] OTHER -> s

\* C11: every rendered link has the colour the scale holds for the id the
\* first matching rule names (source when both ends hold Income, target
\* when only the source does, target when the source has no colon, source
\* otherwise), and two links that take the colour of the same id have the
\* same colour whatever was looked up between them.
C11_LinkColourRule ==
    /\ \A j \in 1..Len(link_colour) :
          /\ DomainIndex(scale_domain, ColourKey(j)) > 0
          /\ link_colour[j] =
                (DomainIndex(scale_domain, ColourKey(j)) - 1) % PaletteSize
    /\ \A i, j \in 1..Len(link_colour) :
          ColourKey(i) = ColourKey(j) => link_colour[i] = link_colour[j]

\* three links are drawn, the first and the third take the colour of the
\* target Expenses:Food of an Income source, the second another id's
C11_Witness ==
    /\ Len(link_colour) = 3
    /\ g.nodes[g.links[1].source] = Income
    /\ ColourKey(1) = ExpensesFood
    /\ ColourKey(3) = ExpensesFood
    /\ ColourKey(2) # ExpensesFood
    /\ link_colour[1] = link_colour[3]
    /\ link_colour[2] # link_colour[1]

(***************************************************************************)
(* Properties of the decoder's failures.                                   *)
(***************************************************************************)
\* the payload is not an array of {nodes_ss, links_ss} string records, or
\* one of these fields is not JSON
SchemaViolation(j) ==
    \/ j.shape # "records"
    \/ \E i \in 1..Len(j.records) :
          ~j.records[i].nodes_ss.wf \/ ~j.records[i].links_ss.wf

\* C12: on a schema violation the decoder returns an unsuccessful Result,
\* it does not throw, and it produces no graph.
C12_SchemaViolationIsResult ==
    (Parsed /\ SchemaViolation(json)) =>
        (result.status = "err" /\ result.data = EmptyData)

\* a decoded FlowEdge or BudgetOverlayEdge names an id that is not among
\* the decoded nodes
Dangling(data) ==
    \/ \E i \in 1..Len(data.links) :
          \/ IndexOf(data.nodes, data.links[i].source) = 0
          \/ IndexOf(data.nodes, data.links[i].target) = 0
    \/ \E i \in 1..Len(data.budget_actual) :
          \/ IndexOf(data.nodes, data.budget_actual[i].source) = 0
          \/ IndexOf(data.nodes, data.budget_actual[i].target) = 0

\* C14: a payload whose decoded edges name an absent node id (and hold no
\* cycle) is not stopped: the stages after decoding never fail on it.
C14_DanglingEdgeNonFatal ==
    (Decoded /\ Dangling(result.data) /\ ~Circular(result.data.links)) =>
        pc # "layoutthrew"

(***************************************************************************)
(* Order of the decoded sequences.                                         *)
(***************************************************************************)
\* the edge a tuple stands for when its value is the token at position p
EdgeAt(tuple, p) ==
    Edge(tuple[1], tuple[2], Number(Split(tuple[3], " ")[p]))

\* every edge is the head of a slot later than the slot of the edge before
\* it (a slot holds the edge of one tuple, or nothing)
RECURSIVE FollowsSlots(_, _)
FollowsSlots(edges, slots) ==
    IF edges = <<>> THEN TRUE
    ELSE IF slots = <<>> THEN FALSE
    ELSE IF Head(slots) = <<Head(edges)>>
    THEN FollowsSlots(Tail(edges), Tail(slots))
    ELSE FollowsSlots(edges, Tail(slots))

\* edges come from tuples of the kind Kind, each from a later tuple than
\* the edge before it, with the token at position p as value
InTupleOrder(edges, tuples, Kind(_), p) ==
    FollowsSlots(edges,
                 [i \in 1..Len(tuples) |->
                     IF Kind(tuples[i]) THEN <<EdgeAt(tuples[i], p)>>
                     ELSE <<>>])

\* the ids the collapsed tuples of one record exclude
ExcludedBy(rec) ==
    {IF CollapsesTarget(t[1]) THEN t[2] ELSE t[1] :
        t \in {u \in Range(rec.links_ss.val) : IsCollapsedToken(u)}}

\* the node arrays of the records, in payload order, each without the ids
\* its record excludes
RECURSIVE KeptNodes(_)
KeptNodes(recs) ==
    IF recs = <<>> THEN <<>>
    ELSE SelectSeq(Head(recs).nodes_ss.val,
                   LAMBDA n : n \notin ExcludedBy(Head(recs)))
           \o KeptNodes(Tail(recs))

FlowTuple(t) == IsOneNumber(t) \/ IsTwoNumbers(t)

\* C15: the decoded links, collapsed links and overlay edges follow the
\* order of the tuples they come from (records in payload order, tuples in
\* record order), and the decoded node ids are the node arrays in order
\* with only the excluded ids taken out.
C15_InputOrder ==
    Decoded =>
        LET tuples == TuplesOf(json.records)
        IN  /\ InTupleOrder(result.data.links, tuples, FlowTuple, 1)
            /\ InTupleOrder(result.data.collapsed_links, tuples,
                            IsCollapsedToken, 1)
            /\ InTupleOrder(result.data.budget_actual, tuples,
                            IsTwoNumbers, 2)
            /\ result.data.nodes = KeptNodes(json.records)

\* two records each give one flow edge, of different values, and each
\* lists the nodes
C15_Witness ==
    /\ Decoded
    /\ Len(json.records) = 2
    /\ Len(json.records[1].links_ss.val) = 1
    /\ Len(json.records[2].links_ss.val) = 1
    /\ json.records[1].nodes_ss.val = DecodeNodes
    /\ json.records[2].nodes_ss.val = DecodeNodes
    /\ result.data.links =
          <<Edge(TagJob, TagRent, 100000), Edge(TagJob, TagRent, 40000)>>
    /\ result.data.nodes = DecodeNodes \o DecodeNodes

(***************************************************************************)
(* Properties of the percent pass, continued.                              *)
(***************************************************************************)
\* the target id of the edge is under Expenses with more than two segments
DeepExpense(edge) ==
    /\ Includes(g.nodes[edge.target], "Expenses")
    /\ Depth(g.nodes[edge.target]) > 2

\* C16: an iteration of the percent pass whose source total is above zero
\* sets the target's percent to round(target.total / source.total, 2),
\* multiplied by the percent the source holds in that iteration when the
\* edge's target id is under Expenses with more than two colon-separated
\* segments, and unscaled otherwise (source and target are the ends the
\* iteration works on, after its swap).
C16_PercentRebasing ==
    [][(pc = "percent" /\ k < Len(g.links) /\ k' = k + 1)
         => LET edge == g.links[k + 1]
                source == PSource(g, edge)
                target == PTarget(g, edge)
                share == Ratio2(nodes_total[target], nodes_total[source])
            IN  nodes_total[source] > 0 =>
                  nodes_percent'[target] =
                     IF DeepExpense(edge)
                     THEN PctMul(share, nodes_percent'[source])
                     ELSE share]_vars

\* Expenses:Food -> Expenses:Food:Out comes before Income -> Expenses:Food:
\* the child is rebased on the parent's percent 0 and stays 0, the parent
\* ends at 1; in the other order of the same links the child gets a share
C16_Witness ==
    /\ PercentsDone
    /\ Len(g.links) = 2
    /\ At(ExpensesOut) > 0
    /\ g.links[1] = Edge(At(ExpensesFood), At(ExpensesOut), 4000)
    /\ g.links[2] = Edge(At(Income), At(ExpensesFood), 40000)
    /\ nodes_total[At(ExpensesFood)] = 40000
    /\ nodes_percent[At(ExpensesFood)] = PctOne
    /\ nodes_percent[At(ExpensesOut)] = PctZero

\* C17: every iteration of the percent pass whose source after the swap has
\* an id with an Income or Assets marker leaves that source at percent 1,
\* swapped edges included.
C17_MarkerSourceIsOne ==
    [][(pc = "percent" /\ k < Len(g.links) /\ k' = k + 1
          /\ Marker(g.nodes[PSource(g, g.links[k + 1])]))
         => nodes_percent'[PSource(g, g.links[k + 1])] = PctOne]_vars

(***************************************************************************)
(* Properties of the running maximum.                                      *)
(***************************************************************************)
\* the largest total among the nodes of the graph
LargestTotal ==
    CHOOSE m \in Range(nodes_total) : \A x \in Range(nodes_total) : x <= m

\* C18: once the total pass over a graph is over, the running maximum is
\* the largest total among all nodes of that graph, roots included.
C18_NodeMaxIsLargestTotal ==
    (TotalsDone /\ Len(g.nodes) > 0) => node_max = LargestTotal

(***************************************************************************)
(* Properties of the budget overlay.                                       *)
(***************************************************************************)
ActualsDone == pc \in {"name", "done"}

\* the positions of the overlay edges that target node i
OverlaysAt(i) ==
    {j \in 1..Len(g.budget_actual) : At(g.budget_actual[j].target) = i}

\* C19: after the mapper, the actual of a node is the value of the last
\* overlay edge that targets it, in input order, and 0 when none does; no
\* overlay edge changes the actual of a node it does not target.
C19_ActualIsLastOverlay ==
    ActualsDone =>
        \A i \in 1..Len(g.nodes) :
            nodes_actual[i] =
                IF OverlaysAt(i) = {} THEN 0
                ELSE g.budget_actual[
                       CHOOSE j \in OverlaysAt(i) :
                           \A h \in OverlaysAt(i) : h <= j].value

\* two overlays target Expenses:Food, 50 then 0: its actual is 0, not 50,
\* while its total is the sum 80 of the two flow edges; Income keeps 0
C19_Witness ==
    /\ ActualsDone
    /\ At(ExpensesFood) > 0
    /\ Len(g.budget_actual) = 2
    /\ g.budget_actual[1] = Edge(Income, ExpensesFood, 50000)
    /\ g.budget_actual[2] = Edge(Income, ExpensesFood, 0)
    /\ nodes_actual[At(ExpensesFood)] = 0
    /\ nodes_total[At(ExpensesFood)] = 80000
    /\ nodes_actual[At(Income)] = 0

\* the label node i gets in this graph when one more overlay edge, of
\* value 0, targets it
LabelWithZeroOverlay(i) ==
    LET g0 == [g EXCEPT !.budget_actual =
                  Append(@, Edge(g.nodes[i], g.nodes[i], 0))]
    IN  compute_name(g0, nodes_total, nodes_percent,
                     compute_budget_actual(g0))[i]

\* C20: in budget mode the label of a node that no overlay edge targets
\* differs from the label it would have with an overlay edge of value 0.
C20_NoBudgetDataLabel ==
    (pc = "done" /\ ~PercentMode(g)) =>
        \A i \in 1..Len(g.nodes) :
            OverlaysAt(i) = {} => nodes_name[i] # LabelWithZeroOverlay(i)
====
